---- MODULE Spec2Model ----
(***************************************************************************)
(* Model of the bike_mapper map front end (app.js): the selection set and  *)
(* its visual flags, the hover handlers, the start/end markers and the     *)
(* route request made by the "Generate Route" button.                      *)
(*                                                                         *)
(* Every handler of the page runs to completion on the browser's event     *)
(* loop, so each handler is one action.  The only suspension point is the  *)
(* fetch() of generateRoute: the request is dispatched by the button's     *)
(* handler and settled later by the promise callbacks (action Settle).     *)
(***************************************************************************)
EXTENDS Integers, Sequences, FiniteSets, TLC

(***************************************************************************)
(* Value domains.  Null stands for JavaScript's null; identifiers,         *)
(* coordinates and geometries are opaque values the code only compares.    *)
(***************************************************************************)
Null == 0

\* identifiers of the segments of the cycleways layer
SegIds == {1, 2, 3}

\* places the user can click on the map (e.lngLat.toArray())
Coords == {1, 2}

\* the places clicked in the specification of the route request, where the
\* place of a marker plays no part
RouteCoords == {1}

\* geometries the route service can return; EmptyCollection is the empty
\* FeatureCollection the 'route' source starts with
Geoms == {1, 2}
EmptyCollection == 0

\* values of the weight slider
SliderValues == {1}
\* the values the user can move the weight slider to
SliderPositions == {1, 2}

\* figures the route service can return: <<distance_meters, travel_time_seconds>>
Figures == {<<500, 45>>, <<2500, 400>>}

\* the most click listeners map.once() may hold, and the most requests that
\* may be awaiting their response
MaxArmed == 2
MaxInFlight == 2

\* the largest distance_meters and travel_time_seconds of the answers whose
\* figures are formatted one by one
MaxMeters == 4200
MaxSeconds == 7300

(***************************************************************************)
(* The group catalogue (data/grouped_paths.json), in the shape the code    *)
(* reads: hierarchy maps a name to group names, paths maps a group name to *)
(* members; a member is an object with an id, or a nested list of them.    *)
(* An id of 0 is a member without a (truthy) id.                           *)
(***************************************************************************)
Member(id) == [isArray |-> FALSE, id |-> id, items |-> <<>>]
Chain(ids) == [isArray |-> TRUE, id |-> 0,
               items |-> [i \in 1..Len(ids) |-> [id |-> ids[i]]]]

groupedPaths ==
    [hierarchy |-> [city_centre |-> <<"leith_walk", "picardy_place">>,
                    outskirts   |-> <<"leith_walk", "not_loaded">>],
     paths     |-> [leith_walk    |-> <<Member(1), Member(2)>>,
                    picardy_place |-> <<Chain(<<2, 3>>), Member(0)>>]]

\* groupedPaths, hierarchy and paths are plain objects: a lookup by a name
\* they do not hold finds what every object inherits under names such as
\* these (a function, or for __proto__ an object): truthy, and no array
ObjectPrototypeKeys ==
    {"constructor", "toString", "valueOf", "hasOwnProperty", "__proto__"}

\* the values the pathGroups dropdown can carry; "" is its placeholder option
GroupKey(prefix, key) == [prefix |-> prefix, key |-> key]
DropdownValues ==
    {GroupKey("", ""),
     GroupKey("hierarchy:", "city_centre"), GroupKey("hierarchy:", "outskirts"),
     GroupKey("hierarchy:", "nowhere"),
     GroupKey("path:", "leith_walk"), GroupKey("path:", "picardy_place"),
     GroupKey("path:", "nowhere")}

VARIABLES
    features,          \* the array of {id, coordinates} entries
    selected,          \* feature-state 'selected' of the cycleways source
    hover,             \* feature-state 'hover' of the cycleways source
    hoveredFeatureId,
    pointerOver,       \* the feature the map last reported under the pointer,
                       \* Null once it reported that the pointer left the layer
    previous_cursor,
    cursor,            \* map.getCanvas().style.cursor
    startPoint,        \* Null, or the place of the start marker
    endPoint,
    markersOnMap,      \* how many markers of each colour are on the map
    onceListeners,     \* the click listeners registered by map.once()
    slider,
    inflight,          \* the bodies of the requests awaiting their response
    routeData,         \* data of the 'route' source
    applied,           \* the answer whose data the 'route' source was last set
                       \* to, NoAnswer for the empty collection
    routeInfo,         \* the panel: hidden class, distance text, time text
    generateButton,    \* disabled, textContent, button-pulsing class
    alerted            \* the alert() the last handler raised, "" for none

vars == <<features, selected, hover, hoveredFeatureId, pointerOver, previous_cursor, cursor,
          startPoint, endPoint, markersOnMap, onceListeners, slider, inflight,
          routeData, applied, routeInfo, generateButton, alerted>>

selectionVars == <<features, selected>>
hoverVars     == <<hover, hoveredFeatureId, pointerOver, previous_cursor, cursor>>
endpointVars  == <<startPoint, endPoint, markersOnMap, onceListeners>>
routeVars     == <<inflight, routeData, applied, routeInfo, generateButton>>

NoAlert == ""
ValidationAlert == "Please set both start and end points."
RouteErrorAlert ==
    "Error generating route. Please check if the backend server is running."

\* no answer of the service is on the map: the 'route' source holds the
\* empty collection it was added with, or the one clearRoute has set
NoAnswer ==
    [fault |-> FALSE, ok |-> FALSE, hasGeojson |-> FALSE, geom |-> EmptyCollection,
     distance_meters |-> 0, travel_time_seconds |-> 0]

IdleLabel == "Generate Route"
PendingLabel == "Generating Route..."

Init ==
    /\ features = <<>>
    /\ selected = [id \in SegIds |-> FALSE]
    /\ hover = [id \in SegIds |-> FALSE]
    /\ hoveredFeatureId = Null
    /\ pointerOver = Null
    /\ previous_cursor = ""
    /\ cursor = ""
    /\ startPoint = Null
    /\ endPoint = Null
    /\ markersOnMap = [start |-> 0, end |-> 0]
    /\ onceListeners = <<>>
    /\ slider \in SliderValues
    /\ inflight = <<>>
    /\ routeData = EmptyCollection
    /\ applied = NoAnswer
    \* the panel is shown by showRouteInfo alone: it starts hidden and empty
    /\ routeInfo = [hidden |-> TRUE, routeDistance |-> "", routeTime |-> ""]
    /\ generateButton = [disabled |-> FALSE, textContent |-> IdleLabel,
                         pulsing |-> FALSE]
    /\ alerted = NoAlert

(***************************************************************************)
(* Hover handlers.                                                         *)
(***************************************************************************)
\* map.setFeatureState({source: 'cycleways', id}, {<flag>: value})
SetFeatureState(store, id, value) == [store EXCEPT ![id] = value]

\* HoverEnter without the clearing of the feature hovered before
HoverEnter_noClear(store, hovered, f) == SetFeatureState(store, f, TRUE)

\* the hover flags after the mousemove handler has seen feature f
HoverEnter(store, hovered, f) ==
    SetFeatureState(IF hovered # Null
                    THEN SetFeatureState(store, hovered, FALSE)
                    ELSE store,
                    f, TRUE)

\* the hover flags after the mouseleave handler
HoverLeave(store, hovered) ==
    IF hovered # Null THEN SetFeatureState(store, hovered, FALSE) ELSE store

MouseMove(f) ==
    /\ hover' = HoverEnter(hover, hoveredFeatureId, f)
    /\ hoveredFeatureId' = f
    /\ pointerOver' = f
    /\ previous_cursor' = IF cursor # "pointer" THEN cursor ELSE previous_cursor
    /\ cursor' = "pointer"
    /\ alerted' = NoAlert
    /\ UNCHANGED <<selectionVars, endpointVars, slider, routeVars>>

MouseLeave ==
    /\ hover' = HoverLeave(hover, hoveredFeatureId)
    /\ hoveredFeatureId' = Null
    /\ pointerOver' = Null
    /\ cursor' = previous_cursor
    /\ alerted' = NoAlert
    /\ UNCHANGED <<previous_cursor, selectionVars, endpointVars, slider, routeVars>>

(***************************************************************************)
(* The selection set: the features array and the 'selected' flags.  The    *)
(* operators work on a record [features, selected, writes], where writes   *)
(* lists the identifiers whose 'selected' flag the handler has written.    *)
(***************************************************************************)
SelectionState(feats, sel) == [features |-> feats, selected |-> sel, writes |-> <<>>]

\* features.findIndex(feature => feature.id === id); 0 stands for -1
FindIndex(feats, id) ==
    IF \E i \in 1..Len(feats) : feats[i].id = id
    THEN CHOOSE i \in 1..Len(feats) :
            /\ feats[i].id = id
            /\ \A j \in 1..(i - 1) : feats[j].id # id
    ELSE 0

\* features.splice(index, 1)
Splice(feats, index) ==
    [i \in 1..(Len(feats) - 1) |-> IF i < index THEN feats[i] ELSE feats[i + 1]]

\* Toggle that removes the entry and leaves its flag set
Toggle_keepFlag(st, id, coordinates) ==
    LET existingFeatureIndex == FindIndex(st.features, id) IN
    IF existingFeatureIndex # 0
    THEN [features |-> Splice(st.features, existingFeatureIndex),
          selected |-> st.selected,
          writes   |-> st.writes]
    ELSE [features |-> Append(st.features, [id |-> id, coordinates |-> coordinates]),
          selected |-> SetFeatureState(st.selected, id, TRUE),
          writes   |-> Append(st.writes, id)]

\* the body of the click handler for a hovered feature
Toggle(st, id, coordinates) ==
    LET existingFeatureIndex == FindIndex(st.features, id) IN
    IF existingFeatureIndex # 0
    THEN [features |-> Splice(st.features, existingFeatureIndex),
          selected |-> SetFeatureState(st.selected, id, FALSE),
          writes   |-> Append(st.writes, id)]
    ELSE [features |-> Append(st.features, [id |-> id, coordinates |-> coordinates]),
          selected |-> SetFeatureState(st.selected, id, TRUE),
          writes   |-> Append(st.writes, id)]

\* deselectAllRoutes: clear the flag of every entry, then empty the array
RECURSIVE ClearFlags(_, _)
ClearFlags(st, feats) ==
    IF feats = <<>> THEN st
    ELSE ClearFlags([st EXCEPT !.selected = SetFeatureState(@, Head(feats).id, FALSE),
                               !.writes = Append(@, Head(feats).id)],
                    Tail(feats))

\* DeselectAll that empties the array and leaves the flags as they are
DeselectAll_keepFlags(st) == [st EXCEPT !.features = <<>>]

DeselectAll(st) == [ClearFlags(st, st.features) EXCEPT !.features = <<>>]

\* extractIdsFromPath: the ids of a group's members, nested lists flattened
RECURSIVE ItemIds(_)
ItemIds(items) ==
    IF items = <<>> THEN <<>>
    ELSE (IF Head(items).id # 0 THEN <<Head(items).id>> ELSE <<>>)
         \o ItemIds(Tail(items))

\* GroupIds that passes over the nested lists
RECURSIVE GroupIds_flatOnly(_)
GroupIds_flatOnly(pathGroup) ==
    IF pathGroup = <<>> THEN <<>>
    ELSE (IF ~Head(pathGroup).isArray /\ Head(pathGroup).id # 0
          THEN <<Head(pathGroup).id>> ELSE <<>>)
         \o GroupIds_flatOnly(Tail(pathGroup))

RECURSIVE GroupIds(_)
GroupIds(pathGroup) ==
    IF pathGroup = <<>> THEN <<>>
    ELSE (IF Head(pathGroup).isArray THEN ItemIds(Head(pathGroup).items)
          ELSE IF Head(pathGroup).id # 0 THEN <<Head(pathGroup).id>>
          ELSE <<>>)
         \o GroupIds(Tail(pathGroup))

\* (a name paths only inherits gives a value that is no array: no ids)
extractIdsFromPath(pathKey) ==
    IF pathKey \notin DOMAIN groupedPaths.paths THEN <<>>
    ELSE GroupIds(groupedPaths.paths[pathKey])

\* ConcatPaths that keeps the first child alone
ConcatPaths_firstChild(childPaths) ==
    IF childPaths = <<>> THEN <<>> ELSE extractIdsFromPath(Head(childPaths))

\* the idsToSelect of selectPathGroup
RECURSIVE ConcatPaths(_)
ConcatPaths(childPaths) ==
    IF childPaths = <<>> THEN <<>>
    ELSE extractIdsFromPath(Head(childPaths)) \o ConcatPaths(Tail(childPaths))

IdsToSelect(groupKey) ==
    IF groupKey.prefix = "hierarchy:"
    THEN IF groupKey.key \in DOMAIN groupedPaths.hierarchy
         THEN ConcatPaths(groupedPaths.hierarchy[groupKey.key])
         ELSE <<>>
    ELSE IF groupKey.prefix = "path:"
    THEN extractIdsFromPath(groupKey.key)
    ELSE <<>>

\* AddId without the test for an entry of the same id
AddId_noCheck(st, id) ==
    [features |-> Append(st.features, [id |-> id, coordinates |-> Null]),
     selected |-> SetFeatureState(st.selected, id, TRUE),
     writes   |-> Append(st.writes, id)]

\* AddId that toggles an id it finds selected
AddId_retoggle(st, id) ==
    IF FindIndex(st.features, id) # 0 THEN Toggle(st, id, Null)
    ELSE AddId_noCheck(st, id)

\* one turn of idsToSelect.forEach in selectPathGroup
AddId(st, id) ==
    IF FindIndex(st.features, id) # 0 THEN st
    ELSE [features |-> Append(st.features, [id |-> id, coordinates |-> Null]),
          selected |-> SetFeatureState(st.selected, id, TRUE),
          writes   |-> Append(st.writes, id)]

RECURSIVE AddMany(_, _)
AddMany(st, ids) ==
    IF ids = <<>> THEN st ELSE AddMany(AddId(st, Head(ids)), Tail(ids))

\* selectPathGroup throws before it has resolved anything: a hierarchy name
\* the catalogue does not hold but every object inherits passes the test
\* groupedPaths.hierarchy[hierarchyKey], and childPaths.forEach is then no
\* function (TypeError)
ResolveThrows(groupKey) ==
    /\ groupKey.prefix = "hierarchy:"
    /\ groupKey.key \notin DOMAIN groupedPaths.hierarchy
    /\ groupKey.key \in ObjectPrototypeKeys

\* selectPathGroup, with the onchange handler's test of the dropdown value
SelectGroup(st, groupKey) ==
    IF groupKey = GroupKey("", "") THEN st
    ELSE IF ResolveThrows(groupKey) THEN st
    ELSE AddMany(st, IdsToSelect(groupKey))

selectPathGroup(groupKey) ==
    LET st == SelectGroup(SelectionState(features, selected), groupKey) IN
    /\ features' = st.features
    /\ selected' = st.selected
    /\ alerted' = NoAlert
    /\ UNCHANGED <<hoverVars, endpointVars, slider, routeVars>>

\* deselectAllRoutes that also ends the hover
deselectAllRoutes_clearsHover ==
    LET st == DeselectAll(SelectionState(features, selected)) IN
    /\ features' = st.features
    /\ selected' = st.selected
    /\ hover' = [id \in SegIds |-> FALSE]
    /\ hoveredFeatureId' = Null
    /\ alerted' = NoAlert
    /\ UNCHANGED <<pointerOver, previous_cursor, cursor, endpointVars, slider, routeVars>>

deselectAllRoutes ==
    LET st == DeselectAll(SelectionState(features, selected)) IN
    /\ features' = st.features
    /\ selected' = st.selected
    /\ alerted' = NoAlert
    /\ UNCHANGED <<hoverVars, endpointVars, slider, routeVars>>

(***************************************************************************)
(* Start and end markers.  setStart and setEnd register a one-time click   *)
(* listener; the next click on the map runs the permanent click handler    *)
(* and then every one-time listener, in the order they were registered.    *)
(***************************************************************************)
EndpointState(sp, ep, onMap, cur) ==
    [startPoint |-> sp, endPoint |-> ep, markersOnMap |-> onMap, cursor |-> cur]


\* PlaceMarker that leaves the prior marker of the role on the map
PlaceMarker_noRemove(es, role, lngLat) ==
    [startPoint   |-> IF role = "start" THEN lngLat ELSE es.startPoint,
     endPoint     |-> IF role = "end" THEN lngLat ELSE es.endPoint,
     markersOnMap |-> [es.markersOnMap EXCEPT ![role] = @ + 1],
     cursor       |-> ""]

\* the listener registered by setStart ("start") or setEnd ("end")
PlaceMarker(es, role, lngLat) ==
    LET prior == IF role = "start" THEN es.startPoint ELSE es.endPoint
        removed == IF prior # Null
                   THEN [es.markersOnMap EXCEPT ![role] = @ - 1]
                   ELSE es.markersOnMap
    IN [startPoint   |-> IF role = "start" THEN lngLat ELSE es.startPoint,
        endPoint     |-> IF role = "end" THEN lngLat ELSE es.endPoint,
        markersOnMap |-> [removed EXCEPT ![role] = @ + 1],
        cursor       |-> ""]

RECURSIVE FireOnce(_, _, _)
FireOnce(es, listeners, lngLat) ==
    IF listeners = <<>> THEN es
    ELSE FireOnce(PlaceMarker(es, Head(listeners), lngLat), Tail(listeners), lngLat)

setStart ==
    /\ Len(onceListeners) < MaxArmed
    /\ cursor' = "crosshair"
    /\ onceListeners' = Append(onceListeners, "start")
    /\ alerted' = NoAlert
    /\ UNCHANGED <<hover, hoveredFeatureId, pointerOver, previous_cursor, startPoint, endPoint,
                   markersOnMap, selectionVars, slider, routeVars>>

setEnd ==
    /\ Len(onceListeners) < MaxArmed
    /\ cursor' = "crosshair"
    /\ onceListeners' = Append(onceListeners, "end")
    /\ alerted' = NoAlert
    /\ UNCHANGED <<hover, hoveredFeatureId, pointerOver, previous_cursor, startPoint, endPoint,
                   markersOnMap, selectionVars, slider, routeVars>>

\* a click on the map at lngLat
MapClick(lngLat) ==
    LET st == IF hoveredFeatureId # Null
              THEN Toggle(SelectionState(features, selected), hoveredFeatureId, lngLat)
              ELSE SelectionState(features, selected)
        es == FireOnce(EndpointState(startPoint, endPoint, markersOnMap, cursor),
                       onceListeners, lngLat)
    IN /\ features' = st.features
       /\ selected' = st.selected
       /\ startPoint' = es.startPoint
       /\ endPoint' = es.endPoint
       /\ markersOnMap' = es.markersOnMap
       /\ cursor' = es.cursor
       /\ onceListeners' = <<>>
       /\ alerted' = NoAlert
       /\ UNCHANGED <<hover, hoveredFeatureId, pointerOver, previous_cursor, slider,
                    routeVars>>

(***************************************************************************)
(* The route request.                                                      *)
(***************************************************************************)
\* Math.round(n / 60) that drops the fraction
RoundedMinutes_floor(n) == n \div 60

\* Math.round(n / 60) for an integer n >= 0: halves round up
RoundedMinutes(n) == (n + 30) \div 60

\* KmTenths that drops the hundredths
KmTenths_truncated(distanceMeters) == distanceMeters \div 100

\* the number of binary digits of n
RECURSIVE BitLength(_)
BitLength(n) == IF n = 0 THEN 0 ELSE 1 + BitLength(n \div 2)

\* the binary digit of r / 1000 that follows its first `kept` digits after
\* the point (0 <= r < 1000)
RECURSIVE NextBit(_, _)
NextBit(r, kept) ==
    IF kept = 0 THEN (IF 2 * r >= 1000 THEN 1 ELSE 0)
    ELSE NextBit((2 * r) % 1000, kept - 1)

\* distanceMeters / 1000 is the double nearest to the quotient: 53 binary
\* digits from the first one of the integer part.  A quotient that is no
\* double has the double above it exactly when the first digit dropped is
\* a 1 (the digits after it are not all 0).
QuotientRoundsUp(distanceMeters) ==
    NextBit(distanceMeters % 1000, 53 - BitLength(distanceMeters \div 1000)) = 1

\* (distanceMeters / 1000).toFixed(1), in tenths of a km, for an integer
\* distanceMeters >= 1000: the tenth nearest to the double, the larger of
\* two that are equally near.  Only at an odd multiple of 50 does the double
\* decide: a quotient ending in .25 or .75 is a double and lies midway, and
\* any other lies beside its double.
KmTenths(distanceMeters) ==
    LET tenths == distanceMeters \div 100
        rest   == distanceMeters % 100
    IN IF \/ rest > 50
          \/ rest = 50 /\ distanceMeters % 250 = 0
          \/ rest = 50 /\ distanceMeters % 250 # 0 /\ QuotientRoundsUp(distanceMeters)
       THEN tenths + 1
       ELSE tenths

DistanceText(distanceMeters) ==
    IF distanceMeters >= 1000
    THEN ToString(KmTenths(distanceMeters) \div 10) \o "."
         \o ToString(KmTenths(distanceMeters) % 10) \o " km"
    ELSE ToString(distanceMeters) \o " m"

TimeText(travelTimeSeconds) ==
    IF travelTimeSeconds >= 3600
    THEN ToString(travelTimeSeconds \div 3600) \o "h "
         \o ToString(RoundedMinutes(travelTimeSeconds % 3600)) \o "m"
    ELSE IF travelTimeSeconds >= 60
    THEN ToString(RoundedMinutes(travelTimeSeconds)) \o " min"
    ELSE ToString(travelTimeSeconds) \o " sec"

\* showRouteInfo that writes the texts and leaves the hidden class alone
showRouteInfo_keepHidden(panel, distanceMeters, travelTimeSeconds) ==
    [hidden        |-> panel.hidden,
     routeDistance |-> DistanceText(distanceMeters),
     routeTime     |-> TimeText(travelTimeSeconds)]

\* showRouteInfo: write both texts, then remove the panel's hidden class
showRouteInfo(panel, distanceMeters, travelTimeSeconds) ==
    [hidden        |-> FALSE,
     routeDistance |-> DistanceText(distanceMeters),
     routeTime     |-> TimeText(travelTimeSeconds)]

\* hideRouteInfo that leaves the panel as it is
hideRouteInfo_noop(panel) == panel

hideRouteInfo(panel) == [panel EXCEPT !.hidden = TRUE]

\* What the service can answer.  fault: fetch() rejected (no response at
\* all); ok: response.ok; hasGeojson: the body has a geojson field, with
\* distance_meters and travel_time_seconds beside it; otherwise the body is
\* itself the geometry.
Response(fault, ok, hasGeojson, geom, d, t) ==
    [fault |-> fault, ok |-> ok, hasGeojson |-> hasGeojson, geom |-> geom,
     distance_meters |-> d, travel_time_seconds |-> t]

Bodies ==
    {Response(FALSE, TRUE, TRUE, g, f[1], f[2]) : g \in Geoms, f \in Figures}
    \cup {Response(FALSE, TRUE, FALSE, g, 0, 0) : g \in Geoms}

Responses ==
    Bodies
    \cup {[b EXCEPT !.ok = FALSE] : b \in Bodies}
    \cup {Response(TRUE, FALSE, FALSE, EmptyCollection, 0, 0)}

RouteState(data, panel) == [routeData |-> data, routeInfo |-> panel, alert |-> NoAlert]

\* ApplyData whose fallback branch also hides the panel
ApplyData_legacyHides(rs, data) ==
    IF data.hasGeojson
    THEN [routeData |-> data.geom,
          routeInfo |-> [hidden        |-> FALSE,
                         routeDistance |-> DistanceText(data.distance_meters),
                         routeTime     |-> TimeText(data.travel_time_seconds)],
          alert     |-> rs.alert]
    ELSE [routeData |-> data.geom,
          routeInfo |-> [rs.routeInfo EXCEPT !.hidden = TRUE],
          alert     |-> rs.alert]

\* the second .then() of generateRoute: the parsed body is applied
ApplyData(rs, data) ==
    IF data.hasGeojson
    THEN [routeData |-> data.geom,
          routeInfo |-> showRouteInfo(rs.routeInfo, data.distance_meters,
                                      data.travel_time_seconds),
          alert     |-> rs.alert]
    ELSE [rs EXCEPT !.routeData = data.geom]

\* the .catch() of generateRoute
CatchError(rs) == [rs EXCEPT !.alert = RouteErrorAlert]

\* HandleResponse without the test of response.ok
HandleResponse_ignoreStatus(rs, response) ==
    IF response.fault THEN [rs EXCEPT !.alert = RouteErrorAlert]
    ELSE IF response.hasGeojson
    THEN [routeData |-> response.geom,
          routeInfo |-> [hidden        |-> FALSE,
                         routeDistance |-> DistanceText(response.distance_meters),
                         routeTime     |-> TimeText(response.travel_time_seconds)],
          alert     |-> rs.alert]
    ELSE [rs EXCEPT !.routeData = response.geom]

\* the promise chain of generateRoute once fetch() has settled
HandleResponse(rs, response) ==
    IF response.fault THEN CatchError(rs)
    ELSE IF ~response.ok THEN CatchError(rs)
    ELSE ApplyData(rs, response)

\* the body generateRoute posts
\* RequestBody with start and end taking each other's place
RequestBody_swapped(start, end, preferredRoutes, followingWeight) ==
    [start |-> end, end |-> start, following_weight |-> followingWeight,
     preferred_routes |-> preferredRoutes]

\* the JSON body of the POST
RequestBody(start, end, preferredRoutes, followingWeight) ==
    [start |-> start, end |-> end, following_weight |-> followingWeight,
     preferred_routes |-> preferredRoutes]

\* features.map(x => x.id)
FeatureIds(feats) == [i \in 1..Len(feats) |-> feats[i].id]

\* the try block of the button's handler, up to the call of generateRoute
ButtonPending(button) ==
    [disabled |-> TRUE, textContent |-> PendingLabel, pulsing |-> TRUE]

\* a handler whose cleanup does not run
ButtonFinally_skipped(button) == button

\* the finally block of the button's handler
ButtonFinally(button) ==
    [disabled |-> FALSE, textContent |-> IdleLabel, pulsing |-> FALSE]

\* generateRoute: fetch() is called and returns at once with a promise
Dispatch(requests, body) == Append(requests, body)

\* the test with || in place of &&
BothSet_either(start, end) == start # Null \/ end # Null

\* the handler's test: startPoint && endPoint
BothSet(start, end) == start # Null /\ end # Null

\* the Generate Route button is pressed (a disabled button gets no click)
GenerateClick ==
    /\ ~generateButton.disabled
    /\ IF BothSet(startPoint, endPoint)
       THEN /\ Len(inflight) < MaxInFlight
            /\ inflight' = Dispatch(inflight,
                                    RequestBody(startPoint, endPoint,
                                                FeatureIds(features), slider))
            /\ generateButton' = ButtonFinally(ButtonPending(generateButton))
            /\ alerted' = NoAlert
       ELSE /\ alerted' = ValidationAlert
            /\ UNCHANGED <<inflight, generateButton>>
    /\ UNCHANGED <<selectionVars, hoverVars, endpointVars, slider, routeData, applied,
                   routeInfo>>

\* the response to the i-th request awaiting one arrives
Settle(i, response) ==
    LET rs == HandleResponse(RouteState(routeData, routeInfo), response) IN
    /\ i \in 1..Len(inflight)
    /\ inflight' = Splice(inflight, i)
    /\ routeData' = rs.routeData
    /\ applied' = IF rs.alert = NoAlert THEN response ELSE applied
    /\ routeInfo' = rs.routeInfo
    /\ alerted' = rs.alert
    /\ UNCHANGED <<selectionVars, hoverVars, endpointVars, slider, generateButton>>

\* the user moves the weight slider; the page reads it when Generate Route
\* is pressed and at no other time
SetSlider(w) ==
    /\ slider' = w
    /\ alerted' = NoAlert
    /\ UNCHANGED <<selectionVars, hoverVars, endpointVars, routeVars>>

\* clearRoute that also drops the requests pending
clearRoute_cancels ==
    /\ routeData' = EmptyCollection
    /\ applied' = NoAnswer
    /\ routeInfo' = hideRouteInfo(routeInfo)
    /\ inflight' = <<>>
    /\ alerted' = NoAlert
    /\ UNCHANGED <<selectionVars, hoverVars, endpointVars, slider, generateButton>>

clearRoute ==
    /\ routeData' = EmptyCollection
    /\ applied' = NoAnswer
    /\ routeInfo' = hideRouteInfo(routeInfo)
    /\ alerted' = NoAlert
    /\ UNCHANGED <<selectionVars, hoverVars, endpointVars, slider, inflight,
                   generateButton>>

(***************************************************************************)
(* Specifications.  SpecSelection is the page with the map events, the     *)
(* group dropdown, the deselect button and the marker buttons; SpecRoute   *)
(* is the page with the marker buttons, the map click, the Generate Route  *)
(* and Clear Route buttons and the answers of the route service.           *)
(***************************************************************************)
NextSelection ==
    \/ \E f \in SegIds : MouseMove(f)
    \/ MouseLeave
    \/ \E lngLat \in Coords : MapClick(lngLat)
    \/ \E groupKey \in DropdownValues : selectPathGroup(groupKey)
    \/ deselectAllRoutes
    \/ setStart
    \/ setEnd

SpecSelection == Init /\ [][NextSelection]_vars

NextRoute ==
    \/ setStart
    \/ setEnd
    \/ \E lngLat \in RouteCoords : MapClick(lngLat)
    \/ GenerateClick
    \/ \E i \in 1..MaxInFlight, response \in Responses : Settle(i, response)
    \/ clearRoute

SpecRoute == Init /\ [][NextRoute]_vars

\* SpecPayload is the page around one pending request: the marker buttons
\* and the map click, two groups of the dropdown and the deselect button,
\* the weight slider, Generate Route pressed with no request pending, an
\* answer with metrics or a failed fetch, and Clear Route.
PayloadGroups == {GroupKey("path:", "leith_walk"), GroupKey("hierarchy:", "city_centre")}
PayloadResponses ==
    {Response(FALSE, TRUE, TRUE, 1, 2500, 400),
     Response(TRUE, FALSE, FALSE, EmptyCollection, 0, 0)}

NextPayload ==
    \/ setStart
    \/ setEnd
    \/ \E lngLat \in Coords : MapClick(lngLat)
    \/ \E groupKey \in PayloadGroups : selectPathGroup(groupKey)
    \/ deselectAllRoutes
    \/ \E w \in SliderPositions : SetSlider(w)
    \/ inflight = <<>> /\ GenerateClick
    \/ \E response \in PayloadResponses : Settle(1, response)
    \/ clearRoute

SpecPayload == Init /\ [][NextPayload]_vars

\* SpecPointer is the page with every handler at once, on a small scale:
\* the pointer over two of the segments, clicks at one place, two groups of the
\* dropdown, the deselect button, the marker buttons, Generate Route with no
\* request pending, an answer with metrics or a failed fetch, Clear Route.
PointerSegs == {2, 3}

NextPointer ==
    \/ \E f \in PointerSegs : MouseMove(f)
    \/ MouseLeave
    \/ \E lngLat \in RouteCoords : MapClick(lngLat)
    \/ \E groupKey \in PayloadGroups : selectPathGroup(groupKey)
    \/ deselectAllRoutes
    \/ setStart
    \/ setEnd
    \/ inflight = <<>> /\ GenerateClick
    \/ \E response \in PayloadResponses : Settle(1, response)
    \/ clearRoute

SpecPointer == Init /\ [][NextPointer]_vars

\* SpecFormat is showRouteInfo on its own: both markers stand, one request
\* is pending, and its answer carries a distance or a travel time out of
\* the whole range.
FormatFigures ==
    {<<d, 0>> : d \in 0..MaxMeters} \cup {<<0, t>> : t \in 0..MaxSeconds}
FormatResponses == {Response(FALSE, TRUE, TRUE, 1, f[1], f[2]) : f \in FormatFigures}

InitFormat ==
    /\ features = <<>>
    /\ selected = [id \in SegIds |-> FALSE]
    /\ hover = [id \in SegIds |-> FALSE]
    /\ hoveredFeatureId = Null
    /\ pointerOver = Null
    /\ previous_cursor = ""
    /\ cursor = ""
    /\ startPoint = 1
    /\ endPoint = 1
    /\ markersOnMap = [start |-> 1, end |-> 1]
    /\ onceListeners = <<>>
    /\ slider \in SliderValues
    /\ inflight = <<RequestBody(startPoint, endPoint, FeatureIds(features), slider)>>
    /\ routeData = EmptyCollection
    /\ applied = NoAnswer
    /\ routeInfo = [hidden |-> TRUE, routeDistance |-> "", routeTime |-> ""]
    /\ generateButton = [disabled |-> FALSE, textContent |-> IdleLabel,
                         pulsing |-> FALSE]
    /\ alerted = NoAlert

NextFormat == inflight # <<>> /\ \E response \in FormatResponses : Settle(1, response)

SpecFormat == InitFormat /\ [][NextFormat]_vars

(***************************************************************************)
(* Properties.                                                             *)
(***************************************************************************)
InFeatures(id) == \E i \in 1..Len(features) : features[i].id = id

FailedResponses == {r \in Responses : r.fault \/ ~r.ok}
MetricResponses == {r \in Responses : ~r.fault /\ r.ok /\ r.hasGeojson}
LegacyResponses == {r \in Responses : ~r.fault /\ r.ok /\ ~r.hasGeojson}

\* C1: in every state reached by map clicks on hovered segments, dropdown
\* selections and deselect-all, an identifier is in the features array if
\* and only if its 'selected' flag is true.
C1_SelectionMatchesFlags ==
    \A id \in SegIds : InFeatures(id) <=> selected[id]

\* a selection built by a click (coordinates kept) and a group selection
\* (null coordinates), with a segment left unselected
C1_Witness ==
    /\ \E i \in 1..Len(features) : features[i].coordinates # Null
    /\ \E i \in 1..Len(features) : features[i].coordinates = Null
    /\ \E id \in SegIds : ~selected[id]

\* C2: at most one route request awaits its response in any reachable state.
C2_AtMostOneInFlight == Len(inflight) <= 1

\* C3: whenever the response to a request arrives, be it a success, a
\* transport fault or a non-success status, the step leaves the Generate
\* Route button enabled, not pulsing, with its idle label.
C3_IdleAfterCompletion ==
    [][Len(inflight') < Len(inflight) =>
       \A i \in 1..MaxInFlight, response \in Responses :
          Settle(i, response) =>
              /\ ~generateButton'.disabled
              /\ ~generateButton'.pulsing
              /\ generateButton'.textContent = IdleLabel]_vars

\* every request has been answered, the last one with a failure
C3_Witness ==
    /\ alerted = RouteErrorAlert
    /\ inflight = <<>>
    /\ ~generateButton.disabled
    /\ generateButton.textContent = IdleLabel

\* C4: pressing Generate Route while the start or the end marker is unset
\* raises the validation alert, dispatches nothing and leaves the button as
\* it was: enabled, with its label.
C4_RejectedWithoutEndpoints ==
    [][(GenerateClick /\ (startPoint = Null \/ endPoint = Null)) =>
          /\ alerted' = ValidationAlert
          /\ inflight' = inflight
          /\ inflight' = <<>>
          /\ generateButton' = generateButton
          /\ ~generateButton'.disabled]_vars

\* the alert was raised with one marker set and the other missing
C4_Witness ==
    /\ alerted = ValidationAlert
    /\ startPoint # Null
    /\ endPoint = Null

\* C5: when a request settles with a transport fault or a non-success
\* status, whatever the body, the error alert is raised and the route
\* source and the panel stay as they were.
C5_FailureLeavesRoute ==
    [][Len(inflight') < Len(inflight) =>
       \A i \in 1..MaxInFlight, response \in FailedResponses :
          Settle(i, response) =>
              /\ alerted' = RouteErrorAlert
              /\ routeData' = routeData
              /\ routeInfo' = routeInfo]_vars

\* a failure arrived while a route and its figures were shown
C5_Witness ==
    /\ alerted = RouteErrorAlert
    /\ routeData # EmptyCollection
    /\ ~routeInfo.hidden

\* the texts the panel is to show for the figures the service returns
ExpectedDistanceText == (500 :> "500 m") @@ (2500 :> "2.5 km")
ExpectedTimeText == (45 :> "45 sec") @@ (400 :> "7 min")

\* C6: when a request settles with a success carrying geometry, distance
\* and travel time, the route source holds that geometry, the panel shows
\* the formatted distance and time of that response, and it is visible.
C6_MetricsShown ==
    [][Len(inflight') < Len(inflight) =>
       \A i \in 1..MaxInFlight, response \in MetricResponses :
          Settle(i, response) =>
              /\ routeData' = response.geom
              /\ routeInfo'.routeDistance =
                     ExpectedDistanceText[response.distance_meters]
              /\ routeInfo'.routeTime =
                     ExpectedTimeText[response.travel_time_seconds]
              /\ ~routeInfo'.hidden]_vars

\* the scenario of 2500 m and 400 s
C6_Witness ==
    /\ routeData # EmptyCollection
    /\ ~routeInfo.hidden
    /\ routeInfo.routeDistance = "2.5 km"
    /\ routeInfo.routeTime = "7 min"

\* C7: when a request settles with a success whose body is bare geometry,
\* the route source holds that geometry and the panel keeps its visibility
\* and its texts.
C7_LegacyKeepsPanel ==
    [][Len(inflight') < Len(inflight) =>
       \A i \in 1..MaxInFlight, response \in LegacyResponses :
          Settle(i, response) =>
              /\ routeData' = response.geom
              /\ routeInfo' = routeInfo]_vars

\* a route is rendered and the panel was never filled: only a bare-geometry
\* answer does that
C7_Witness ==
    /\ routeData # EmptyCollection
    /\ routeInfo.hidden
    /\ routeInfo.routeDistance = ""

\* C8: the hover flag is set on the feature the map last reported under the
\* pointer and on no other, and on none once the pointer has left the layer.
C8_SingleHover ==
    \A id \in SegIds : hover[id] <=> (id = pointerOver)

\* the pointer is over segment 2 after segment 1 was hovered and clicked
C8_Witness ==
    /\ pointerOver = 2
    /\ hover[2]
    /\ \E i \in 1..Len(features) :
          features[i].id = 1 /\ features[i].coordinates # Null

\* C9: from every reachable selection and for every value of the dropdown,
\* selecting the value a second time changes nothing: the entries, their
\* order and coordinates and the flags are those of selecting it once, and
\* the second selection writes no flag.
C9_AddManyIdempotent ==
    \A groupKey \in DropdownValues :
        LET once  == SelectGroup(SelectionState(features, selected), groupKey)
            twice == SelectGroup(SelectionState(once.features, once.selected),
                                 groupKey)
        IN /\ twice.features = once.features
           /\ twice.selected = once.selected
           /\ twice.writes = <<>>

\* a group was added to a selection that held a clicked member of it
C9_Witness ==
    /\ Len(features) = 3
    /\ features[1].coordinates # Null
    /\ features[2].coordinates = Null
    /\ features[3].coordinates = Null

\* C10: from every reachable selection and for every value of the
\* dropdown, the selection keeps every entry of the features array in its
\* place with its coordinates, writes the 'selected' flag of no identifier
\* that was in the array, and appends only identifiers that were not in it,
\* each once and with null coordinates.
C10_AddManyKeepsExisting ==
    \A groupKey \in DropdownValues :
        LET st == SelectGroup(SelectionState(features, selected), groupKey)
            old == Len(features)
            new == Len(st.features)
        IN /\ new >= old
           /\ SubSeq(st.features, 1, old) = features
           /\ \A i \in (old + 1)..new :
                 /\ st.features[i].coordinates = Null
                 /\ ~InFeatures(st.features[i].id)
                 /\ \A j \in (old + 1)..new :
                       st.features[j].id = st.features[i].id => j = i
           /\ \A k \in 1..Len(st.writes) : ~InFeatures(st.writes[k])
           /\ \A id \in SegIds : InFeatures(id) => st.selected[id] = selected[id]

\* segment 2 was clicked, then its group was selected: the entry of 2 keeps
\* the clicked place and the group's other member follows with null
C10_Witness ==
    /\ Len(features) >= 2
    /\ features[1].id = 2
    /\ features[1].coordinates # Null
    /\ features[2].id = 1
    /\ features[2].coordinates = Null

\* the identifiers of a sequence of entries, and of a sequence of ids, as sets
EntryIds(feats) == {feats[i].id : i \in 1..Len(feats)}
Range(ids) == {ids[i] : i \in 1..Len(ids)}

\* a sequence without its repetitions, each element at its first place
RECURSIVE FirstSeen(_)
FirstSeen(ids) ==
    IF ids = <<>> THEN <<>>
    ELSE LET front == FirstSeen(SubSeq(ids, 1, Len(ids) - 1))
             last  == ids[Len(ids)]
         IN IF last \in Range(front) THEN front ELSE Append(front, last)

\* the elements of ids that are not in the set gone, in their order
RECURSIVE Without(_, _)
Without(ids, gone) ==
    IF ids = <<>> THEN <<>>
    ELSE (IF Head(ids) \in gone THEN <<>> ELSE <<Head(ids)>>)
         \o Without(Tail(ids), gone)

\* what the catalogue is to give: the members of each group, and the ids of
\* each hierarchy, child after child
ExpectedGroupMembers ==
    ("leith_walk" :> {1, 2}) @@ ("picardy_place" :> {2, 3})
ExpectedHierarchyIds ==
    ("city_centre" :> <<1, 2, 2, 3>>) @@ ("outskirts" :> <<1, 2>>)

\* C11: with nothing selected, selecting 'path:G' makes the features array
\* hold exactly the identifiers of G's members (scalar entries and the
\* elements of nested lists), each once, each with null coordinates, and
\* sets the 'selected' flag of these identifiers and of no other.
C11_GroupSelectedExactly ==
    features = <<>> =>
        \A G \in DOMAIN ExpectedGroupMembers :
            LET st == SelectGroup(SelectionState(features, selected),
                                  GroupKey("path:", G))
            IN /\ EntryIds(st.features) = ExpectedGroupMembers[G]
               /\ Len(st.features) = Cardinality(ExpectedGroupMembers[G])
               /\ \A i \in 1..Len(st.features) : st.features[i].coordinates = Null
               /\ \A id \in SegIds : st.selected[id] <=> id \in ExpectedGroupMembers[G]

\* the group with the nested list was selected with nothing selected before
C11_Witness ==
    /\ features = <<[id |-> 2, coordinates |-> Null], [id |-> 3, coordinates |-> Null]>>
    /\ \A id \in SegIds : selected[id] <=> id \in {2, 3}

\* C12 as stated: the list resolved for a hierarchy holds no identifier
\* twice: it is the children's identifiers in child order, each at its
\* first place, so that selecting the hierarchy appends the identifiers of
\* the list that were not selected, as the list has them.
C12_ResolverDedupes ==
    \A H \in DOMAIN ExpectedHierarchyIds :
        LET ids == IdsToSelect(GroupKey("hierarchy:", H))
            st  == SelectGroup(SelectionState(features, selected),
                               GroupKey("hierarchy:", H))
        IN /\ ids = FirstSeen(ExpectedHierarchyIds[H])
           /\ FeatureIds(st.features)
                  = FeatureIds(features) \o Without(ids, EntryIds(features))

\* C12, amended: the list resolved for a hierarchy is the children's
\* identifiers concatenated in child order, a shared member once for each
\* child that holds it; selecting the hierarchy appends to the features
\* array the identifiers of that list that were not selected, each once, in
\* the order of their first place in the list.
C12_ResolvedThenDeduped ==
    \A H \in DOMAIN ExpectedHierarchyIds :
        LET st == SelectGroup(SelectionState(features, selected),
                              GroupKey("hierarchy:", H))
        IN /\ IdsToSelect(GroupKey("hierarchy:", H)) = ExpectedHierarchyIds[H]
           /\ FeatureIds(st.features) =
                  FeatureIds(features)
                  \o Without(FirstSeen(ExpectedHierarchyIds[H]), EntryIds(features))

\* the hierarchy whose two groups share segment 2 was selected with nothing
\* selected before
C12_Witness ==
    /\ FeatureIds(features) = <<1, 2, 3>>
    /\ \A i \in 1..Len(features) : features[i].coordinates = Null

\* the references no group or hierarchy of the catalogue answers to
UnknownReferences ==
    {GroupKey("path:", "nowhere"), GroupKey("path:", "not_loaded"),
     GroupKey("path:", "constructor"),
     GroupKey("hierarchy:", "nowhere"), GroupKey("hierarchy:", "constructor")}

C14_MembershipUnique ==
    \A i, j \in 1..Len(features) : features[i].id = features[j].id => i = j

\* segment 2 was clicked, then the hierarchy whose two groups both hold it
\* was selected
C14_Witness ==
    /\ Len(features) = 3
    /\ features[1].id = 2
    /\ features[1].coordinates # Null
    /\ FeatureIds(features) = <<2, 1, 3>>

\* the entries of feats that are not of segment id, in their order
OtherEntries(feats, id) == SelectSeq(feats, LAMBDA e : e.id # id)

\* C15: a click on the map while segment S is hovered toggles S and nothing
\* else: S selected is removed and its flag cleared, S not selected is added
\* with the clicked coordinates and its flag set, the entries and flags of
\* the other segments stay; a click with no segment hovered leaves the
\* features array and the flags as they are.
C15_ClickTogglesHovered ==
    [][\A lngLat \in Coords :
          MapClick(lngLat) =>
              IF hoveredFeatureId = Null
              THEN features' = features /\ selected' = selected
              ELSE /\ hoveredFeatureId \in EntryIds(features) =>
                          /\ hoveredFeatureId \notin EntryIds(features')
                          /\ ~selected'[hoveredFeatureId]
                   /\ hoveredFeatureId \notin EntryIds(features) =>
                          /\ features' = Append(features,
                                                [id |-> hoveredFeatureId,
                                                 coordinates |-> lngLat])
                          /\ selected'[hoveredFeatureId]
                   /\ OtherEntries(features', hoveredFeatureId)
                          = OtherEntries(features, hoveredFeatureId)
                   /\ \A id \in SegIds \ {hoveredFeatureId} :
                          selected'[id] = selected[id]]_vars

\* a group was selected, its segment 2 clicked away, and segment 3, still
\* hovered, clicked in
C15_Witness ==
    /\ features = <<[id |-> 1, coordinates |-> Null], [id |-> 3, coordinates |-> 2]>>
    /\ hoveredFeatureId = 3
    /\ \A id \in SegIds : selected[id] <=> id \in {1, 3}

\* C19: at most one start marker and at most one end marker are on the map,
\* and a marker of a role is on the map exactly when the point of that role
\* is set, whatever buttons were pressed and however often before a click.
C19_OneMarkerPerRole ==
    /\ markersOnMap.start <= 1
    /\ markersOnMap.end <= 1
    /\ markersOnMap.start = 1 <=> startPoint # Null
    /\ markersOnMap.end = 1 <=> endPoint # Null

\* both markers stand, the start marker at another place than the end
\* marker, and Set Start was pressed twice again for the next click
C19_Witness ==
    /\ startPoint = 2
    /\ endPoint = 1
    /\ markersOnMap.start = 1
    /\ markersOnMap.end = 1
    /\ onceListeners = <<"start", "start">>

\* C20 as stated: a click on the map that places or replaces the start
\* marker leaves the end marker as it is, and a click that places or
\* replaces the end marker leaves the start marker as it is, whatever the
\* order of the presses of Set Start and Set End before the click.
C20_EndpointsIndependent ==
    [][\A lngLat \in Coords :
          MapClick(lngLat) =>
              /\ "start" \in Range(onceListeners) =>
                     endPoint' = endPoint /\ markersOnMap'.end = markersOnMap.end
              /\ "end" \in Range(onceListeners) =>
                     startPoint' = startPoint
                     /\ markersOnMap'.start = markersOnMap.start]_vars

\* C16: the body of a dispatched request holds the start, the end, the
\* slider value and the identifiers of the features array, in the array's
\* order, as they are when Generate Route is pressed; no later change of the
\* selection, the markers or the slider alters a request that is pending:
\* the pending requests change only by the new request joining them or by
\* one of them being answered.
C16_PayloadAtTrigger ==
    [][LET body == [start            |-> startPoint,
                    end              |-> endPoint,
                    following_weight |-> slider,
                    preferred_routes |-> [i \in 1..Len(features) |-> features[i].id]]
       IN /\ (GenerateClick /\ startPoint # Null /\ endPoint # Null) =>
                 inflight' = Append(inflight, body)
          /\ inflight' # inflight =>
                 \/ inflight' = Append(inflight, body)
                 \/ \E i \in 1..Len(inflight) : inflight' = Splice(inflight, i)]_vars

\* a request is pending, and since it was sent both markers, the slider and
\* the selection have changed
C16_Witness ==
    /\ Len(inflight) = 1
    /\ startPoint \notin {Null, inflight[1].start}
    /\ endPoint \notin {Null, inflight[1].end}
    /\ slider # inflight[1].following_weight
    /\ inflight[1].preferred_routes = <<1, 2>>
    /\ FeatureIds(features) = <<1, 2, 3>>

\* C17: Clear Route can be pressed in every state; it empties the route
\* shown and hides the panel, and leaves the texts of the panel, the
\* requests pending, the Generate Route button, the features array and the
\* flags, the hover state, the markers with their listeners, the cursor and
\* the slider as they are.
C17_ClearFrame ==
    /\ [](ENABLED clearRoute)
    /\ [][clearRoute =>
              /\ routeData' = EmptyCollection
              /\ routeInfo'.hidden
              /\ routeInfo'.routeDistance = routeInfo.routeDistance
              /\ routeInfo'.routeTime = routeInfo.routeTime
              /\ UNCHANGED <<inflight, generateButton, selectionVars, hoverVars,
                             endpointVars, slider>>]_vars

\* Clear Route was pressed on a route shown with its metrics, with segments
\* selected, both markers set and a request pending
C17_Witness ==
    /\ routeData = EmptyCollection
    /\ routeInfo.hidden
    /\ routeInfo.routeDistance # ""
    /\ features # <<>>
    /\ startPoint # Null
    /\ endPoint # Null
    /\ inflight # <<>>

\* C18: Clear Route cancels nothing: the requests pending stay pending, and
\* a good answer that arrives for one of them after the route was cleared
\* is applied: the route shows the geometry of the answer, and the panel,
\* if the answer has metrics, is shown with them.
C18_AnswerAfterClear ==
    [][/\ clearRoute => inflight' = inflight
       /\ \A i \in 1..Len(inflight), response \in Bodies :
              (routeData = EmptyCollection /\ routeInfo.hidden
               /\ Settle(i, response)) =>
                  /\ routeData' = response.geom
                  /\ response.hasGeojson =>
                         /\ ~routeInfo'.hidden
                         /\ routeInfo'.routeDistance
                                = DistanceText(response.distance_meters)
                         /\ routeInfo'.routeTime
                                = TimeText(response.travel_time_seconds)]_vars

\* a route was shown with its metrics and cleared while another request
\* was pending: its answer is still to come
C18_Witness ==
    /\ routeData = EmptyCollection
    /\ routeInfo.hidden
    /\ routeInfo.routeTime # ""
    /\ Len(inflight) = 1
    /\ generateButton.textContent = IdleLabel

Abs(n) == IF n < 0 THEN -n ELSE n

\* the multiple count m of unit nearest to n, the larger of two equally near
Nearest(n, unit) ==
    CHOOSE m \in {n \div unit, n \div unit + 1} :
        \A k \in {n \div unit, n \div unit + 1} :
            \/ Abs(unit * m - n) < Abs(unit * k - n)
            \/ Abs(unit * m - n) = Abs(unit * k - n) /\ m >= k

\* C21: the time text of the panel for t seconds is '<t> sec' for t < 60,
\* '<t / 60 rounded to the nearest> min' for 60 <= t < 3600, and
\* '<whole hours>h <rest of the seconds / 60 rounded to the nearest>m' for
\* t >= 3600; 45 gives '45 sec', 125 '2 min', 400 '7 min', 5400 '1h 30m'.
C21_TimeFormat ==
    ~routeInfo.hidden =>
        LET t == applied.travel_time_seconds
            h == CHOOSE n \in 0..t : 3600 * n <= t /\ t < 3600 * (n + 1)
        IN /\ t < 60 => routeInfo.routeTime = ToString(t) \o " sec"
           /\ (60 <= t /\ t < 3600) =>
                  routeInfo.routeTime = ToString(Nearest(t, 60)) \o " min"
           /\ t >= 3600 =>
                  routeInfo.routeTime =
                      ToString(h) \o "h " \o ToString(Nearest(t - 3600 * h, 60)) \o "m"
           /\ t = 45 => routeInfo.routeTime = "45 sec"
           /\ t = 125 => routeInfo.routeTime = "2 min"
           /\ t = 400 => routeInfo.routeTime = "7 min"
           /\ t = 5400 => routeInfo.routeTime = "1h 30m"

\* an answer of 5400 seconds is shown
C21_Witness ==
    /\ ~routeInfo.hidden
    /\ applied.travel_time_seconds = 5400
    /\ routeInfo.routeTime = "1h 30m"

\* C22: the distance text of the panel for d metres is '<d> m' for d < 1000
\* and, for d >= 1000, the kilometres with one decimal, a tenth nearest to
\* d / 1000, and ' km'; 500 gives '500 m', 999 '999 m', 1000 '1.0 km',
\* 1500 '1.5 km', 2500 '2.5 km'.
C22_DistanceFormat ==
    ~routeInfo.hidden =>
        LET d == applied.distance_meters IN
        /\ d < 1000 => routeInfo.routeDistance = ToString(d) \o " m"
        /\ d >= 1000 =>
               \E n \in {d \div 100, d \div 100 + 1} :
                   /\ Abs(100 * n - d) <= 50
                   /\ routeInfo.routeDistance =
                          ToString(n \div 10) \o "." \o ToString(n % 10) \o " km"
        /\ d = 500 => routeInfo.routeDistance = "500 m"
        /\ d = 999 => routeInfo.routeDistance = "999 m"
        /\ d = 1000 => routeInfo.routeDistance = "1.0 km"
        /\ d = 1500 => routeInfo.routeDistance = "1.5 km"
        /\ d = 2500 => routeInfo.routeDistance = "2.5 km"

\* an answer of 1000 metres is shown
C22_Witness ==
    /\ ~routeInfo.hidden
    /\ applied.distance_meters = 1000
    /\ routeInfo.routeDistance = "1.0 km"

\* the time texts whose minutes are below 60
MinuteTexts == {ToString(n) \o " min" : n \in 1..59}
HourTexts(h) == {ToString(h) \o "h " \o ToString(n) \o "m" : n \in 0..59}

\* C29 as stated: the minutes of the time text are below 60: for
\* 60 <= t < 3600 the text is '<n> min' with 1 <= n <= 59, and for
\* t >= 3600 it is '<h>h <n>m' with 0 <= n <= 59.
C29_MinutesBelowSixty ==
    ~routeInfo.hidden =>
        LET t == applied.travel_time_seconds IN
        /\ (60 <= t /\ t < 3600) => routeInfo.routeTime \in MinuteTexts
        /\ t >= 3600 => routeInfo.routeTime \in HourTexts(t \div 3600)

\* C23 as stated: the answer to a request that a later press of Generate
\* Route has superseded is not applied: when it arrives while the later
\* request still awaits its answer, the route shown and the panel stay as
\* they are.
C23_StaleRejected ==
    [][\A i \in 1..MaxInFlight, response \in Bodies :
          (i < Len(inflight) /\ Settle(i, response)) =>
              /\ routeData' = routeData
              /\ routeInfo' = routeInfo]_vars

\* C27 as stated: whenever the panel is visible, the route shown is that of
\* an answer with metrics, and the distance and the time of the panel are
\* those of that answer.
C27_PanelMatchesRoute ==
    ~routeInfo.hidden =>
        /\ routeData = applied.geom
        /\ applied.hasGeojson
        /\ routeInfo.routeDistance = DistanceText(applied.distance_meters)
        /\ routeInfo.routeTime = TimeText(applied.travel_time_seconds)

\* C25: the hover handlers leave the features array and the 'selected'
\* flags as they are, and no other handler (the click, the dropdown, the
\* deselect button, the marker buttons, Generate Route, an answer, Clear
\* Route) changes a hover flag or the hovered identifier.
C25_HoverSelectionApart ==
    [][/\ (features' # features \/ selected' # selected) =>
              /\ ~MouseLeave
              /\ \A f \in SegIds : ~MouseMove(f)
       /\ (hover' # hover \/ hoveredFeatureId' # hoveredFeatureId) =>
              \/ MouseLeave
              \/ \E f \in SegIds : MouseMove(f)]_vars

\* segment 3 is hovered and not selected, segment 2 is selected and not
\* hovered, and an answer of the service is on the map
C25_Witness ==
    /\ hoveredFeatureId = 3
    /\ hover[3] /\ ~hover[2]
    /\ selected[2] /\ ~selected[3]
    /\ routeData # EmptyCollection

\* C24 as stated: whenever a segment is hovered the cursor of the map is
\* 'pointer', also when hovering is mixed with presses of Set Start and Set
\* End and with the clicks that place a marker.
C24_PointerWhileHovered ==
    hoveredFeatureId # Null => cursor = "pointer"

\* C26 as stated: the cursor of the map is 'crosshair' only while a press
\* of Set Start or Set End awaits its click: with no listener armed the
\* cursor is not 'crosshair', also after the pointer has left the layer.
C26_CrosshairOnlyArmed ==
    onceListeners = <<>> => cursor # "crosshair"

\* C28 as stated: a click on the map that places a start or an end marker
\* leaves the features array and the 'selected' flags as they are, whether
\* a segment is hovered or not.
C28_PlacingClickKeepsSelection ==
    [][\A lngLat \in Coords :
          (onceListeners # <<>> /\ MapClick(lngLat)) =>
              features' = features /\ selected' = selected]_vars

====
